---------------------------- MODULE Spec2Model ----------------------------
(***************************************************************************)
(* State-machine model of the MACHIN3tools operators                       *)
(*   operators/unity.py     PrepareExport, RestoreExport                   *)
(*   operators/align.py     Align                                          *)
(*   ui/operators/cursor.py CursorToOrigin, CursorToSelected               *)
(*                                                                         *)
(* Numbers.  Coordinates, scale factors, bevel widths and display sizes    *)
(* are integers.  Rotations are the 24 axis-aligned rotations, held as     *)
(* integer 3x3 matrices (a quaternion is represented by the rotation       *)
(* matrix it denotes); Euler angles are counted in quarter turns           *)
(* (-1, 0, 1, 2 for -90, 0, 90, 180 degrees).  Every product, quotient and *)
(* square root the code computes is exact on these values.                 *)
(***************************************************************************)
EXTENDS Integers, Sequences, FiniteSets, TLC

(***************************************************************************)
(* mathutils: vectors and matrices                                         *)
(***************************************************************************)
Abs(x) == IF x < 0 THEN -x ELSE x

\* Vector(): the zero vector
ZeroVec == <<0, 0, 0>>

VecSub(a, b) == <<a[1] - b[1], a[2] - b[2], a[3] - b[3]>>
VecAdd(a, b) == <<a[1] + b[1], a[2] + b[2], a[3] + b[3]>>
VecDivScalar(a, d) == <<a[1] \div d, a[2] \div d, a[3] \div d>>
Dot(a, b) == a[1] * b[1] + a[2] * b[2] + a[3] * b[3]
Cross(a, b) == <<a[2] * b[3] - a[3] * b[2],
                 a[3] * b[1] - a[1] * b[3],
                 a[1] * b[2] - a[2] * b[1]>>

\* Matrix(): the 4x4 identity
Identity4 == <<<<1, 0, 0, 0>>, <<0, 1, 0, 0>>, <<0, 0, 1, 0>>, <<0, 0, 0, 1>>>>
Identity3 == <<<<1, 0, 0>>, <<0, 1, 0>>, <<0, 0, 1>>>>

\* A @ B for 4x4 matrices
MatMulRow(a, B) ==
    <<a[1] * B[1][1] + a[2] * B[2][1] + a[3] * B[3][1] + a[4] * B[4][1],
      a[1] * B[1][2] + a[2] * B[2][2] + a[3] * B[3][2] + a[4] * B[4][2],
      a[1] * B[1][3] + a[2] * B[2][3] + a[3] * B[3][3] + a[4] * B[4][3],
      a[1] * B[1][4] + a[2] * B[2][4] + a[3] * B[3][4] + a[4] * B[4][4]>>
MatMul(A, B) == <<MatMulRow(A[1], B), MatMulRow(A[2], B), MatMulRow(A[3], B), MatMulRow(A[4], B)>>

\* A @ B for 3x3 rotation matrices (quaternion product)
MatMul3Row(a, B) ==
    <<a[1] * B[1][1] + a[2] * B[2][1] + a[3] * B[3][1],
      a[1] * B[1][2] + a[2] * B[2][2] + a[3] * B[3][2],
      a[1] * B[1][3] + a[2] * B[2][3] + a[3] * B[3][3]>>
MatMul3(A, B) == <<MatMul3Row(A[1], B), MatMul3Row(A[2], B), MatMul3Row(A[3], B)>>

\* R @ v for a 3x3 rotation and a 3-vector
MatVec3(R, v) == <<Dot(R[1], v), Dot(R[2], v), Dot(R[3], v)>>

\* M @ v for a 4x4 matrix and a 3-vector (a point: w = 1)
MatPoint(M, v) ==
    <<Dot(M[1], v) + M[1][4], Dot(M[2], v) + M[2][4], Dot(M[3], v) + M[3][4]>>

\* matrix.to_translation()
to_translation(M) == <<M[1][4], M[2][4], M[3][4]>>

\* the upper-left 3x3 block
Linear3(M) == <<<<M[1][1], M[1][2], M[1][3]>>,
                <<M[2][1], M[2][2], M[2][3]>>,
                <<M[3][1], M[3][2], M[3][3]>>>>

\* rotation.to_matrix().to_4x4()
to_4x4(R) == <<<<R[1][1], R[1][2], R[1][3], 0>>,
               <<R[2][1], R[2][2], R[2][3], 0>>,
               <<R[3][1], R[3][2], R[3][3], 0>>,
               <<0, 0, 0, 1>>>>

Det3(R) ==
      R[1][1] * (R[2][2] * R[3][3] - R[2][3] * R[3][2])
    - R[1][2] * (R[2][1] * R[3][3] - R[2][3] * R[3][1])
    + R[1][3] * (R[2][1] * R[3][2] - R[2][2] * R[3][1])

\* the length of column j of the linear part
ColLength(R, j) ==
    LET sq == R[1][j] * R[1][j] + R[2][j] * R[2][j] + R[3][j] * R[3][j]
        hi == Abs(R[1][j]) + Abs(R[2][j]) + Abs(R[3][j])
    IN  IF \E r \in 0..hi : r * r = sq
        THEN CHOOSE r \in 0..hi : r * r = sq
        ELSE hi

\* matrix.decompose(): translation, rotation, scale.  The scale is the length
\* of each column; a mirrored matrix gets all three factors negated.
NormalizedRow(r, sca) ==
    <<IF sca[1] = 0 THEN 0 ELSE r[1] \div sca[1],
      IF sca[2] = 0 THEN 0 ELSE r[2] \div sca[2],
      IF sca[3] = 0 THEN 0 ELSE r[3] \div sca[3]>>
decompose(M) ==
    LET parts(R, len) ==
            LET sca == IF Det3(R) < 0 THEN <<-len[1], -len[2], -len[3]>> ELSE len
            IN  [loc |-> to_translation(M),
                 rot |-> <<NormalizedRow(R[1], sca), NormalizedRow(R[2], sca),
                           NormalizedRow(R[3], sca)>>,
                 sca |-> sca]
    IN  parts(Linear3(M), <<ColLength(Linear3(M), 1), ColLength(Linear3(M), 2),
                            ColLength(Linear3(M), 3)>>)

\* quarter-turn cosine and sine
CosQ(q) == <<1, 0, -1, 0>>[(q % 4) + 1]
SinQ(q) == <<0, 1, 0, -1>>[(q % 4) + 1]

\* Matrix.Rotation(radians(90 * q), 4, axis), as a 3x3 rotation
Rotation3(q, axis) ==
    LET c == CosQ(q)
        s == SinQ(q)
    IN  CASE axis = "X" -> <<<<1, 0, 0>>, <<0, c, -s>>, <<0, s, c>>>>
          [] axis = "Y" -> <<<<c, 0, s>>, <<0, 1, 0>>, <<-s, 0, c>>>>
          [] axis = "Z" -> <<<<c, -s, 0>>, <<s, c, 0>>, <<0, 0, 1>>>>

\* Matrix.Rotation(radians(90 * q), 4, axis)
Rotation(q, axis) == to_4x4(Rotation3(q, axis))

\* Matrix.Scale(f, 4): uniform scale
Scale(f) == <<<<f, 0, 0, 0>>, <<0, f, 0, 0>>, <<0, 0, f, 0>>, <<0, 0, 0, 1>>>>

\* atan2 in quarter turns, for arguments in {-1, 0, 1}
Atan2Q(y, x) ==
    CASE y = 0 /\ x >= 0 -> 0
      [] y = 0 /\ x < 0  -> 2
      [] y > 0           -> 1
      [] y < 0           -> -1

\* Euler((x, y, z), 'XYZ').to_matrix()
EulerToMatrix(e) ==
    MatMul3(Rotation3(e[3], "Z"), MatMul3(Rotation3(e[2], "Y"), Rotation3(e[1], "X")))

\* quaternion.to_euler('XYZ'): of the two solutions, the one with the
\* smaller sum of absolute angles; one solution at the gimbal pole
to_euler(R) ==
    LET cy   == IF R[1][1] # 0 \/ R[2][1] # 0 THEN 1 ELSE 0
        eul1 == IF cy > 0
                THEN <<Atan2Q(R[3][2], R[3][3]), Atan2Q(-R[3][1], cy), Atan2Q(R[2][1], R[1][1])>>
                ELSE <<Atan2Q(-R[2][3], R[2][2]), Atan2Q(-R[3][1], cy), 0>>
        eul2 == IF cy > 0
                THEN <<Atan2Q(-R[3][2], -R[3][3]), Atan2Q(-R[3][1], -cy), Atan2Q(-R[2][1], -R[1][1])>>
                ELSE eul1
        sum(e) == Abs(e[1]) + Abs(e[2]) + Abs(e[3])
    IN  IF sum(eul1) > sum(eul2) THEN eul2 ELSE eul1


(***************************************************************************)
(* utils.math (MACHIN3tools helpers imported by the operators)             *)
(***************************************************************************)
\* get_loc_matrix(location): Matrix.Translation(location)
get_loc_matrix(v) == <<<<1, 0, 0, v[1]>>, <<0, 1, 0, v[2]>>, <<0, 0, 1, v[3]>>, <<0, 0, 0, 1>>>>

\* get_rot_matrix(rotation): rotation.to_matrix().to_4x4()
get_rot_matrix(R) == to_4x4(R)

\* get_sca_matrix(scale): the diagonal matrix of the three factors
get_sca_matrix(s) == <<<<s[1], 0, 0, 0>>, <<0, s[2], 0, 0>>, <<0, 0, s[3], 0>>, <<0, 0, 0, 1>>>>

\* flatten_matrix(mx): the 16 entries, column after column
flatten_matrix(M) ==
    <<M[1][1], M[2][1], M[3][1], M[4][1], M[1][2], M[2][2], M[3][2], M[4][2],
      M[1][3], M[2][3], M[3][3], M[4][3], M[1][4], M[2][4], M[3][4], M[4][4]>>

\* reading a 16-float MATRIX property back as a 4x4 matrix
unflatten_matrix(f) ==
    <<<<f[1], f[5], f[9], f[13]>>, <<f[2], f[6], f[10], f[14]>>,
      <<f[3], f[7], f[11], f[15]>>, <<f[4], f[8], f[12], f[16]>>>>

RECURSIVE SumLocations(_)
SumLocations(locs) ==
    IF locs = <<>> THEN ZeroVec ELSE VecAdd(Head(locs), SumLocations(Tail(locs)))

\* average_locations(locationslist)
average_locations(locs) == VecDivScalar(SumLocations(locs), Len(locs))

(***************************************************************************)
(* Bounds and program constants                                            *)
(***************************************************************************)
\* number of objects in the scene
NumObjs == 2

\* number of PrepareExport invocations explored in one run
MaxPrepares == 2

\* the unit rescale of the export: scale / 100, width * 100, Scale(100)
UnityScale == 100

Objs == 1..NumObjs

\* Python's None
None == 0

\* identifiers of mesh data blocks (bpy.data.meshes): two original blocks
\* and room for one duplicate per object
MeshIds == 1..(2 + NumObjs)

\* an identifier of bpy.data.meshes that names no block
Free == [live |-> FALSE, vertices |-> <<>>]

\* a live mesh data block with the given vertex coordinates
Mesh(verts) == [live |-> TRUE, vertices |-> verts]

(***************************************************************************)
(* State                                                                   *)
(***************************************************************************)
VARIABLES
    \* the scene graph (owned by the host)
    obj_type,              \* obj.type: "MESH", "EMPTY" or "CURVE"
    parent,                \* obj.parent: an object or None
    select,                \* the object's selection flag
    hide,                  \* the object is hidden in the viewport
    matrix_world,          \* obj.matrix_world
    modifiers,             \* obj.modifiers: a sequence of modifier records
    empty_display_size,    \* obj.empty_display_size
    data,                  \* obj.data: a mesh identifier, or None
    meshes,                \* bpy.data.meshes: identifier -> vertex coordinates, or Free
    \* the export-state annotation obj.M3 and the scene setting
    unity_exported,        \* obj.M3.unity_exported
    pre_unity_export_mx,   \* obj.M3.pre_unity_export_mx (16 floats)
    pre_unity_export_mesh, \* obj.M3.pre_unity_export_mesh
    unity_triangulate,     \* context.scene.M3.unity_triangulate
    \* history, for stating the properties
    prepared_mx,           \* per flagged object: its world matrix when it was flagged
    prepares,              \* how many times PrepareExport has run
    last_op,               \* the last operation: "init", "host", "prepare", "restore"
    fresh,                 \* the last operation was a restore run right after a prepare
    scope,                 \* the scope (sel / exported) of that prepare or restore
    pre_state              \* per object: its state when that prepare visited it

export_vars == <<obj_type, parent, select, hide, matrix_world, modifiers,
                 empty_display_size, data, meshes, unity_exported,
                 pre_unity_export_mx, pre_unity_export_mesh, unity_triangulate,
                 prepared_mx, prepares, last_op, fresh, scope, pre_state>>

VARIABLES
    \* the host's context, read by the alignment and cursor operators
    context_mode,          \* context.mode: "OBJECT", "POSE" or "EDIT_MESH"
    active_object,         \* context.active_object: an object or None
    active_bone,           \* context.active_bone: the bone's name, or NoBone
    parent_type,           \* obj.parent_type
    parent_bone,           \* obj.parent_bone
    edit_mesh,             \* the edit-mode selection of the active object's mesh
    \* the 3D cursor and the viewport
    cursor_location,       \* scene.cursor.location
    cursor_rotation,       \* the cursor's orientation, as a rotation matrix
    cursor_rotation_mode,  \* scene.cursor.rotation_mode
    show_cursor,           \* space_data.overlay.show_cursor
    pivot,                 \* tool_settings.transform_pivot_point
    orientation,           \* transform_orientation_slots[0].type
    active_tool,           \* the names get_active_tool(context) holds
    draw_object_axes,      \* a handler is registered in the driver namespace
    prefs,                 \* the add-on preferences read by the cursor operators
    \* state of the operators
    cursor,                \* the module-level "cursor": a saved (pivot, orientation), or NoPreset
    is_inbetween,          \* Align.is_inbetween
    \* the outcome of the last operator call, and history for stating properties
    result,                \* "NONE", "FINISHED", "CANCELLED", or "ERROR" (an exception left the call)
    popup,                 \* popup_message was called
    props,                 \* the properties / event of the last operator call
    pre                    \* the state the last operator call started from

tool_vars == <<context_mode, active_object, active_bone, parent_type, parent_bone,
               edit_mesh, cursor_location, cursor_rotation, cursor_rotation_mode,
               show_cursor, pivot, orientation, active_tool, draw_object_axes, prefs,
               cursor, is_inbetween, result, popup, props, pre>>

vars == <<export_vars, tool_vars>>

(***************************************************************************)
(* Host views of the scene                                                 *)
(***************************************************************************)
\* context.visible_objects
visible_objects == {o \in DOMAIN hide : ~hide[o]}

\* context.selected_objects: the selected objects that are visible
selected_objects == {o \in DOMAIN select : select[o] /\ ~hide[o]}

\* obj.children
children(o) == {c \in DOMAIN parent : parent[c] = o}

RECURSIVE Ascending(_)
\* a set of objects in the host's iteration order
Ascending(S) ==
    IF S = {} THEN <<>>
    ELSE LET m == CHOOSE x \in S : \A y \in S : x <= y
         IN  <<m>> \o Ascending(S \ {m})


(***************************************************************************)
(* Modifiers                                                               *)
(***************************************************************************)
\* a modifier of obj.modifiers; by_prepare records who created it (history)
Modifier(t, shown, axes, bisect, flip, w) ==
    [type |-> t, show_viewport |-> shown, use_axis |-> axes,
     use_bisect_axis |-> bisect, use_bisect_flip_axis |-> flip,
     width |-> w, by_prepare |-> FALSE]

\* obj.modifiers.new(name="Triangulate", type="TRIANGULATE")
NewTriangulate ==
    [type |-> "TRIANGULATE", show_viewport |-> TRUE, use_axis |-> <<FALSE, FALSE, FALSE>>,
     use_bisect_axis |-> <<FALSE, FALSE, FALSE>>,
     use_bisect_flip_axis |-> <<FALSE, FALSE, FALSE>>,
     width |-> 0, by_prepare |-> TRUE]

\* flags[1:3] = flags[2], flags[1]: exchange the Y and Z entries
SwapYZ(flags) == <<flags[1], flags[3], flags[2]>>

\* the MIRROR modifiers shown in the viewport get their axis flags swapped
SwapMirror(mod) ==
    IF mod.type = "MIRROR" /\ mod.show_viewport
    THEN [mod EXCEPT !.use_axis = SwapYZ(@),
                     !.use_bisect_axis = SwapYZ(@),
                     !.use_bisect_flip_axis = SwapYZ(@)]
    ELSE mod

\* mod.width *= 100 for the BEVEL modifiers shown in the viewport
ScaleBevelUp(mod) ==
    IF mod.type = "BEVEL" /\ mod.show_viewport
    THEN [mod EXCEPT !.width = @ * UnityScale]
    ELSE mod

\* mod.width /= 100 for the BEVEL modifiers shown in the viewport
ScaleBevelDown(mod) ==
    IF mod.type = "BEVEL" /\ mod.show_viewport
    THEN [mod EXCEPT !.width = @ \div UnityScale]
    ELSE mod

\* prepare_for_export: the modifier stack after the MIRROR, BEVEL and
\* TRIANGULATION sections
PrepareModifiers(mods, type, triangulate) ==
    LET adjusted == [i \in 1..Len(mods) |-> ScaleBevelUp(SwapMirror(mods[i]))]
    IN  IF triangulate /\ type = "MESH"
        THEN Append(adjusted, NewTriangulate)
        ELSE adjusted

\* restore_exported: the modifier stack after the MIRROR, BEVEL and
\* TRIANGULATION sections
RestoreModifiers(mods, detriangulate) ==
    LET adjusted == [i \in 1..Len(mods) |-> ScaleBevelDown(SwapMirror(mods[i]))]
    IN  IF detriangulate /\ Len(adjusted) > 0 /\ adjusted[Len(adjusted)].type = "TRIANGULATE"
        THEN SubSeq(adjusted, 1, Len(adjusted) - 1)
        ELSE adjusted

(***************************************************************************)
(* PrepareExport                                                           *)
(***************************************************************************)
\* variant: PrepareExport without a poll
PrepareUngated == TRUE

\* variant: the poll looks at the selected objects only
PreparePollSelected == {o \in selected_objects : unity_exported[o]} = {}

\* PrepareExport.poll: no visible object is flagged
PreparePoll == {o \in visible_objects : unity_exported[o]} = {}

\* the new world matrix: loc @ rot @ Rotation(90, X) @ (sca / 100)
UnityMatrix(mx) ==
    LET d        == decompose(mx)
        rotation == Rotation(1, "X")
        scale    == get_sca_matrix(VecDivScalar(d.sca, UnityScale))
    IN  MatMul(MatMul(MatMul(get_loc_matrix(d.loc), get_rot_matrix(d.rot)), rotation), scale)

\* obj.data.transform(Rotation(-90, X) @ Scale(100)) on the duplicated mesh
CompensateMesh(verts) ==
    LET rotation == Rotation(-1, "X")
        scale    == Scale(UnityScale)
    IN  [i \in 1..Len(verts) |-> MatPoint(MatMul(rotation, scale), verts[i])]

RECURSIVE PrepareWalk(_, _), PrepareWalkAll(_, _)
\* the objects prepare_for_export(obj, sel, ...) visits, in order
PrepareWalk(obj, sel) ==
    IF obj \in sel
    THEN <<obj>> \o PrepareWalkAll(Ascending({c \in children(obj) : c \in sel}), sel)
    ELSE <<>>
PrepareWalkAll(list, sel) ==
    IF list = <<>> THEN <<>>
    ELSE PrepareWalk(Head(list), sel) \o PrepareWalkAll(Tail(list), sel)

\* obj.data.copy(): the identifier of the new block, one per owner
CopyId(o) == 2 + o

Range(seq) == {seq[i] : i \in 1..Len(seq)}

IsMesh(o) == obj_type[o] = "MESH"

\* what an object looked like when prepare visited it (history)
Snapshot(o) ==
    [mx |-> matrix_world[o], modifiers |-> modifiers[o],
     size |-> empty_display_size[o], data |-> data[o]]
NoSnapshot == [mx |-> <<>>, modifiers |-> <<>>, size |-> 0, data |-> None]

\* PrepareExport.invoke.  The closing FBX export (skipped with ALT) is the
\* host's exporter and changes nothing of this state.
PrepareExport ==
    /\ PreparePoll
    /\ prepares < MaxPrepares
    /\ LET select1  == IF selected_objects = {}
                       THEN [o \in Objs |-> select[o] \/ ~hide[o]]
                       ELSE select
           sel      == {o \in Objs : select1[o] /\ ~hide[o]}
           matrices == [o \in sel |-> matrix_world[o]]
           roots    == {o \in sel : parent[o] = None}
           order    == PrepareWalkAll(Ascending(roots), sel)
           visited  == Range(order)
           copies   == SelectSeq(order, IsMesh)
           newIds   == {CopyId(o) : o \in Range(copies)}
           source(m) == CHOOSE o \in Range(copies) : CopyId(o) = m
       IN  /\ \A m \in newIds : ~meshes[m].live
           /\ prepares' = prepares + 1
           /\ prepared_mx' =
                  [o \in Objs |-> IF o \in visited /\ ~unity_exported[o] THEN matrix_world[o]
                                  ELSE prepared_mx[o]]
           /\ select' = select1
           /\ unity_exported' = [o \in Objs |-> unity_exported[o] \/ o \in visited]
           /\ pre_unity_export_mx' =
                  [o \in Objs |-> IF o \in visited THEN flatten_matrix(matrices[o])
                                  ELSE pre_unity_export_mx[o]]
           /\ matrix_world' =
                  [o \in Objs |-> IF o \in visited THEN UnityMatrix(matrices[o])
                                  ELSE matrix_world[o]]
           /\ modifiers' =
                  [o \in Objs |-> IF o \in visited
                                  THEN PrepareModifiers(modifiers[o], obj_type[o], unity_triangulate)
                                  ELSE modifiers[o]]
           /\ empty_display_size' =
                  [o \in Objs |-> IF o \in visited /\ obj_type[o] = "EMPTY"
                                  THEN empty_display_size[o] * UnityScale
                                  ELSE empty_display_size[o]]
           /\ pre_unity_export_mesh' =
                  [o \in Objs |-> IF o \in visited /\ IsMesh(o) THEN data[o]
                                  ELSE pre_unity_export_mesh[o]]
           /\ data' = [o \in Objs |-> IF o \in visited /\ IsMesh(o) THEN CopyId(o) ELSE data[o]]
           /\ meshes' =
                  [m \in MeshIds |-> IF m \in newIds
                                     THEN Mesh(CompensateMesh(meshes[data[source(m)]].vertices))
                                     ELSE meshes[m]]
           /\ last_op' = "prepare"
           /\ fresh' = FALSE
           /\ scope' = sel
           /\ pre_state' = [o \in Objs |-> IF o \in visited THEN Snapshot(o) ELSE NoSnapshot]
    /\ UNCHANGED <<obj_type, parent, hide, unity_triangulate>>
    /\ UNCHANGED tool_vars


(***************************************************************************)
(* RestoreExport                                                           *)
(***************************************************************************)
\* RestoreExport.poll: some visible object is flagged
RestorePoll == {o \in visible_objects : unity_exported[o]} # {}

RECURSIVE RestoreWalk(_, _), RestoreWalkAll(_, _)
\* the objects restore_exported(obj, exported, ...) visits, in order
RestoreWalk(obj, exported) ==
    IF obj \in exported
    THEN <<obj>> \o RestoreWalkAll(Ascending({c \in children(obj) : c \in exported}), exported)
    ELSE <<>>
RestoreWalkAll(list, exported) ==
    IF list = <<>> THEN <<>>
    ELSE RestoreWalk(Head(list), exported) \o RestoreWalkAll(Tail(list), exported)

\* the OBJECT DATA section applies to a mesh object with a saved mesh
HasSavedMesh(o) == IsMesh(o) /\ pre_unity_export_mesh[o] # None

\* variant: restore_exported collects the saved block in place of obj.data
CollectedSavedMeshes(visited) ==
    {pre_unity_export_mesh[o] : o \in {v \in visited : HasSavedMesh(v)}}

\* meshes.append(obj.data): the blocks restore_exported collects for removal
CollectedMeshes(visited) ==
    {data[o] : o \in {v \in visited : HasSavedMesh(v)}}

\* RestoreExport.execute
RestoreExport ==
    /\ RestorePoll
    /\ LET detriangulate == unity_triangulate
           exported == {o \in visible_objects : unity_exported[o]}
           roots    == {o \in exported : parent[o] = None}
           order    == RestoreWalkAll(Ascending(roots), exported)
           visited  == Range(order)
           removed  == CollectedMeshes(visited)
       IN  /\ matrix_world' =
                  [o \in Objs |-> IF o \in visited THEN unflatten_matrix(pre_unity_export_mx[o])
                                  ELSE matrix_world[o]]
           /\ pre_unity_export_mx' =
                  [o \in Objs |-> IF o \in visited THEN flatten_matrix(Identity4)
                                  ELSE pre_unity_export_mx[o]]
           /\ unity_exported' = [o \in Objs |-> unity_exported[o] /\ o \notin visited]
           /\ modifiers' =
                  [o \in Objs |-> IF o \in visited
                                  THEN RestoreModifiers(modifiers[o], detriangulate)
                                  ELSE modifiers[o]]
           /\ empty_display_size' =
                  [o \in Objs |-> IF o \in visited /\ obj_type[o] = "EMPTY"
                                  THEN empty_display_size[o] \div UnityScale
                                  ELSE empty_display_size[o]]
           /\ data' = [o \in Objs |-> IF o \in visited /\ HasSavedMesh(o)
                                      THEN pre_unity_export_mesh[o] ELSE data[o]]
           /\ pre_unity_export_mesh' =
                  [o \in Objs |-> IF o \in visited /\ HasSavedMesh(o)
                                  THEN None ELSE pre_unity_export_mesh[o]]
           \* bpy.data.batch_remove(meshes)
           /\ meshes' = [m \in MeshIds |-> IF m \in removed THEN Free ELSE meshes[m]]
           /\ prepared_mx' = [o \in Objs |-> IF o \in visited THEN Identity4
                                              ELSE prepared_mx[o]]
           /\ last_op' = "restore"
           /\ fresh' = (last_op = "prepare")
           /\ scope' = exported
           /\ pre_state' = IF last_op = "prepare" THEN pre_state
                           ELSE [o \in Objs |-> NoSnapshot]
    /\ UNCHANGED <<obj_type, parent, select, hide, unity_triangulate, prepares>>
    /\ UNCHANGED tool_vars

(***************************************************************************)
(* Host operations between the operator calls                              *)
(***************************************************************************)
HostFrame ==
    /\ last_op' = "host"
    /\ fresh' = FALSE
    /\ scope' = {}
    /\ pre_state' = [o \in Objs |-> NoSnapshot]
    /\ UNCHANGED <<obj_type, matrix_world, modifiers, empty_display_size, data, meshes,
                   unity_exported, pre_unity_export_mx, pre_unity_export_mesh,
                   prepared_mx, prepares>>
    /\ UNCHANGED tool_vars

\* the user selects or deselects a visible object
ToggleSelect(o) ==
    /\ ~hide[o]
    /\ select' = [select EXCEPT ![o] = ~@]
    /\ HostFrame
    /\ UNCHANGED <<parent, hide, unity_triangulate>>

\* the user hides or reveals an object; a hidden object is not selected
ToggleHide(o) ==
    /\ hide' = [hide EXCEPT ![o] = ~@]
    /\ select' = [select EXCEPT ![o] = FALSE]
    /\ HostFrame
    /\ UNCHANGED <<parent, unity_triangulate>>

\* the user parents an object to the one before it, or clears its parent
\* (the world matrix is kept)
SetParent(o, p) ==
    /\ p # parent[o]
    /\ p = None \/ p = o - 1
    /\ parent' = [parent EXCEPT ![o] = p]
    /\ HostFrame
    /\ UNCHANGED <<select, hide, unity_triangulate>>

\* the user flips the scene's triangulate setting
ToggleTriangulate ==
    /\ unity_triangulate' = ~unity_triangulate
    /\ HostFrame
    /\ UNCHANGED <<parent, select, hide>>

(***************************************************************************)
(* The export specification                                                *)
(***************************************************************************)
\* scene templates: the kinds of object a scene is populated with
MeshA == <<<<1, 2, 3>>, <<-1, 0, 2>>>>
MeshB == <<<<0, 1, 0>>>>

Compose(loc, rot, sca) ==
    MatMul(MatMul(get_loc_matrix(loc), get_rot_matrix(rot)), get_sca_matrix(sca))

Templates == <<
    \* a mesh with a mirror and a bevel, scaled differently on each axis
    [type |-> "MESH", data |-> 1, size |-> 1,
     mx |-> Compose(<<1, 2, 3>>, Rotation3(1, "Z"), <<100, 200, 300>>),
     modifiers |-> <<Modifier("MIRROR", TRUE, <<TRUE, TRUE, FALSE>>, <<FALSE, TRUE, FALSE>>,
                              <<TRUE, FALSE, TRUE>>, 0),
                     Modifier("BEVEL", TRUE, <<FALSE, FALSE, FALSE>>, <<FALSE, FALSE, FALSE>>,
                              <<FALSE, FALSE, FALSE>>, 2)>>],
    \* an empty
    [type |-> "EMPTY", data |-> None, size |-> 3,
     mx |-> Compose(<<0, 0, 5>>, Rotation3(1, "X"), <<100, 100, 100>>),
     modifiers |-> <<>>],
    \* a mesh whose own stack ends in a triangulate modifier
    [type |-> "MESH", data |-> 2, size |-> 1,
     mx |-> Compose(<<0, 0, 0>>, Identity3, <<100, 100, 100>>),
     modifiers |-> <<Modifier("BEVEL", FALSE, <<FALSE, FALSE, FALSE>>, <<FALSE, FALSE, FALSE>>,
                              <<FALSE, FALSE, FALSE>>, 5),
                     Modifier("TRIANGULATE", TRUE, <<FALSE, FALSE, FALSE>>,
                              <<FALSE, FALSE, FALSE>>, <<FALSE, FALSE, FALSE>>, 0)>>],
    \* a curve whose own stack ends in a triangulate modifier
    [type |-> "CURVE", data |-> None, size |-> 1,
     mx |-> Compose(<<-4, 2, 0>>, Rotation3(1, "X"), <<100, 100, 200>>),
     modifiers |-> <<Modifier("BEVEL", TRUE, <<FALSE, FALSE, FALSE>>, <<FALSE, FALSE, FALSE>>,
                              <<FALSE, FALSE, FALSE>>, 3),
                     Modifier("TRIANGULATE", TRUE, <<FALSE, FALSE, FALSE>>,
                              <<FALSE, FALSE, FALSE>>, <<FALSE, FALSE, FALSE>>, 0)>>],
    \* an instance of the first mesh, without modifiers
    [type |-> "MESH", data |-> 1, size |-> 1,
     mx |-> Compose(<<2, 0, 0>>, Rotation3(1, "Y"), <<200, 200, 200>>),
     modifiers |-> <<>>] >>

\* the template of object o in scene k
TemplateOf(o, k) == Templates[((o + k) % Len(Templates)) + 1]

\* no active bone (context.active_bone is None)
NoBone == ""

\* no saved transform preset (the module-level cursor is None)
NoPreset == <<>>

\* no edit-mode selection
NoEditMesh == [select_mode |-> "NONE", verts |-> <<>>, edges |-> <<>>, faces |-> <<>>,
               rotation |-> Identity3]

\* the preferences with every option switched on
AllPrefs == [cursor_set_transform_preset |-> TRUE, cursor_toggle_axes_drawing |-> TRUE,
             activate_transform_pie |-> TRUE, activate_shading_pie |-> TRUE]

\* the part of the state no operator has touched yet
NothingCalled ==
    /\ is_inbetween = TRUE
    /\ result = "NONE"
    /\ popup = FALSE
    /\ props = <<>>
    /\ pre = <<>>

\* the export operators read nothing of the cursor and the tool context
ToolsIdle ==
    /\ context_mode = "OBJECT"
    /\ active_object = None
    /\ active_bone = NoBone
    /\ parent_type = [o \in Objs |-> "OBJECT"]
    /\ parent_bone = [o \in Objs |-> ""]
    /\ edit_mesh = NoEditMesh
    /\ cursor_location = ZeroVec
    /\ cursor_rotation = Identity3
    /\ cursor_rotation_mode = "XYZ"
    /\ show_cursor = TRUE
    /\ pivot = "MEDIAN_POINT"
    /\ orientation = "GLOBAL"
    /\ active_tool = {"builtin.select_box"}
    /\ draw_object_axes = FALSE
    /\ prefs = AllPrefs
    /\ cursor = NoPreset
    /\ NothingCalled

ExportInit ==
    /\ ToolsIdle
    /\ \E k \in 1..Len(Templates) :
        /\ obj_type = [o \in Objs |-> TemplateOf(o, k).type]
        /\ parent = [o \in Objs |-> None]
        /\ select = [o \in Objs |-> FALSE]
        /\ hide = [o \in Objs |-> FALSE]
        /\ matrix_world = [o \in Objs |-> TemplateOf(o, k).mx]
        /\ modifiers = [o \in Objs |-> TemplateOf(o, k).modifiers]
        /\ empty_display_size = [o \in Objs |-> TemplateOf(o, k).size]
        /\ data = [o \in Objs |-> TemplateOf(o, k).data]
        /\ meshes = [m \in MeshIds |->
                        IF m = 1 THEN Mesh(MeshA) ELSE IF m = 2 THEN Mesh(MeshB) ELSE Free]
        /\ unity_exported = [o \in Objs |-> FALSE]
        /\ pre_unity_export_mx = [o \in Objs |-> flatten_matrix(Identity4)]
        /\ pre_unity_export_mesh = [o \in Objs |-> None]
        /\ unity_triangulate \in BOOLEAN
        /\ prepared_mx = [o \in Objs |-> Identity4]
        /\ prepares = 0
        /\ last_op = "init"
        /\ fresh = FALSE
        /\ scope = {}
        /\ pre_state = [o \in Objs |-> NoSnapshot]

Init == ExportInit

Next ==
    \/ PrepareExport
    \/ RestoreExport
    \/ \E o \in Objs : ToggleSelect(o)
    \/ \E o \in Objs : ToggleHide(o)
    \/ \E o \in Objs : \E p \in {None, o - 1} : SetParent(o, p)
    \/ ToggleTriangulate

Spec == Init /\ [][Next]_vars


(***************************************************************************)
(* Align                                                                   *)
(***************************************************************************)
\* number of objects in the scenes the alignment operator is run on
NumAlignObjs == 3

AlignObjs == 1..NumAlignObjs

Modes == {"ORIGIN", "CURSOR", "ACTIVE", "FLOOR"}

AllAxes == <<TRUE, TRUE, TRUE>>

Flags3 == {<<x, y, z>> : x \in BOOLEAN, y \in BOOLEAN, z \in BOOLEAN}

\* the operator's properties; roll_amount in quarter turns
Properties(inbetween, mode, location, rotation, scale, loc, rot, sca, parent_to_bone, align_z_to_y, roll, roll_amount) ==
    [inbetween |-> inbetween, mode |-> mode,
     location |-> location, rotation |-> rotation, scale |-> scale,
     loc_x |-> loc[1], loc_y |-> loc[2], loc_z |-> loc[3],
     rot_x |-> rot[1], rot_y |-> rot[2], rot_z |-> rot[3],
     sca_x |-> sca[1], sca_y |-> sca[2], sca_z |-> sca[3],
     parent_to_bone |-> parent_to_bone, align_z_to_y |-> align_z_to_y,
     roll |-> roll, roll_amount |-> roll_amount]

\* Align.poll
AlignPoll == selected_objects # {} /\ context_mode \in {"OBJECT", "POSE"}

\* Euler((x, y, z), 'XYZ') handed to get_rot_matrix
get_rot_matrix_euler(e) == get_rot_matrix(EulerToMatrix(e))

\* Align.align_to_origin, for one object
align_to_origin(self, omx) ==
    LET aligned(oloc, orot, osca) ==
            LET locx == IF self.loc_x THEN 0 ELSE oloc[1]
                locy == IF self.loc_y THEN 0 ELSE oloc[2]
                locz == IF self.loc_z THEN 0 ELSE oloc[3]
                loc  == IF self.location THEN get_loc_matrix(<<locx, locy, locz>>)
                        ELSE get_loc_matrix(oloc)
                rot  == get_rot_matrix(orot)
                sca  == get_sca_matrix(osca)
            IN  MatMul(MatMul(loc, rot), sca)
        \* oloc, orot, osca = omx.decompose()
        decomposed(d) == aligned(d.loc, d.rot, d.sca)
    IN  decomposed(decompose(omx))

\* cursor.rotation_euler once the rotation mode is 'XYZ'
cursor_rotation_euler == to_euler(cursor_rotation)

\* Align.align_to_cursor, for one object
align_to_cursor(self, omx) ==
    LET aligned(oloc, orot, osca, oeul, ceul) ==
            LET locx == IF self.loc_x THEN cursor_location[1] ELSE oloc[1]
                locy == IF self.loc_y THEN cursor_location[2] ELSE oloc[2]
                locz == IF self.loc_z THEN cursor_location[3] ELSE oloc[3]
                loc  == IF self.location THEN get_loc_matrix(<<locx, locy, locz>>)
                        ELSE get_loc_matrix(oloc)
                rotx == IF self.rot_x THEN ceul[1] ELSE oeul[1]
                roty == IF self.rot_y THEN ceul[2] ELSE oeul[2]
                rotz == IF self.rot_z THEN ceul[3] ELSE oeul[3]
                rot  == IF self.rotation THEN get_rot_matrix_euler(<<rotx, roty, rotz>>)
                        ELSE get_rot_matrix(orot)
                sca  == get_sca_matrix(osca)
            IN  MatMul(MatMul(loc, rot), sca)
        \* oloc, orot, osca = omx.decompose()
        decomposed(d) == aligned(d.loc, d.rot, d.sca, to_euler(d.rot), cursor_rotation_euler)
    IN  decomposed(decompose(omx))

\* variant: the Y translation is governed by the X flag
align_to_active_object_shared_flag(self, amx, omx) ==
    LET aligned(a, d, aeul, oeul) ==
            LET loc == IF self.location
                       THEN get_loc_matrix(<<IF self.loc_x THEN a.loc[1] ELSE d.loc[1],
                                             IF self.loc_x THEN a.loc[2] ELSE d.loc[2],
                                             IF self.loc_z THEN a.loc[3] ELSE d.loc[3]>>)
                       ELSE get_loc_matrix(d.loc)
                rot == IF self.rotation
                       THEN get_rot_matrix_euler(<<IF self.rot_x THEN aeul[1] ELSE oeul[1],
                                                   IF self.rot_y THEN aeul[2] ELSE oeul[2],
                                                   IF self.rot_z THEN aeul[3] ELSE oeul[3]>>)
                       ELSE get_rot_matrix(d.rot)
                sca == IF self.scale
                       THEN get_sca_matrix(<<IF self.sca_x THEN a.sca[1] ELSE d.sca[1],
                                             IF self.sca_y THEN a.sca[2] ELSE d.sca[2],
                                             IF self.sca_z THEN a.sca[3] ELSE d.sca[3]>>)
                       ELSE get_sca_matrix(d.sca)
            IN  MatMul(MatMul(loc, rot), sca)
        decomposed(a, d) == aligned(a, d, to_euler(a.rot), to_euler(d.rot))
    IN  decomposed(decompose(amx), decompose(omx))

\* Align.align_to_active_object, for one object
align_to_active_object(self, amx, omx) ==
    LET aligned(aloc, aeul, asca, oloc, orot, osca, oeul) ==
            LET locx == IF self.loc_x THEN aloc[1] ELSE oloc[1]
                locy == IF self.loc_y THEN aloc[2] ELSE oloc[2]
                locz == IF self.loc_z THEN aloc[3] ELSE oloc[3]
                loc  == IF self.location THEN get_loc_matrix(<<locx, locy, locz>>)
                        ELSE get_loc_matrix(oloc)
                rotx == IF self.rot_x THEN aeul[1] ELSE oeul[1]
                roty == IF self.rot_y THEN aeul[2] ELSE oeul[2]
                rotz == IF self.rot_z THEN aeul[3] ELSE oeul[3]
                rot  == IF self.rotation THEN get_rot_matrix_euler(<<rotx, roty, rotz>>)
                        ELSE get_rot_matrix(orot)
                scax == IF self.sca_x THEN asca[1] ELSE osca[1]
                scay == IF self.sca_y THEN asca[2] ELSE osca[2]
                scaz == IF self.sca_z THEN asca[3] ELSE osca[3]
                sca  == IF self.scale THEN get_sca_matrix(<<scax, scay, scaz>>)
                        ELSE get_sca_matrix(osca)
            IN  MatMul(MatMul(loc, rot), sca)
        \* aloc, arot, asca = amx.decompose(); oloc, orot, osca = omx.decompose()
        decomposed(a, d) ==
            aligned(a.loc, to_euler(a.rot), a.sca, d.loc, d.rot, d.sca, to_euler(d.rot))
    IN  decomposed(decompose(amx), decompose(omx))

\* armature.pose.bones[bonename].matrix of the scenes' one bone
BoneMatrix ==
    MatMul(get_loc_matrix(<<0, 0, 2>>), get_rot_matrix(Rotation3(1, "X")))

\* Align.align_to_active_bone: the world matrix every object gets
align_to_active_bone(self, amx) ==
    LET roll == IF self.roll THEN self.roll_amount ELSE 0
    IN  IF self.align_z_to_y
        THEN MatMul(MatMul(MatMul(amx, BoneMatrix), Rotation(-1, "X")), Rotation(roll, "Z"))
        ELSE MatMul(MatMul(amx, BoneMatrix), Rotation(roll, "Y"))

\* obj.location of an object without a parent: its world translation
obj_location(o) == to_translation(matrix_world[o])

RECURSIVE MinZ(_, _)
\* min((mx @ v.co)[2] for v in vertices), for a mesh with vertices
MinZ(mx, verts) ==
    LET z == MatPoint(mx, Head(verts))[3]
    IN  IF Len(verts) = 1 THEN z
        ELSE LET rest == MinZ(mx, Tail(verts))
             IN  IF z < rest THEN z ELSE rest

\* Align.drop_to_floor, for one object whose minimum can be taken
drop_to_floor(o) ==
    LET mx == matrix_world[o]
    IN  IF obj_type[o] = "MESH"
        THEN [mx EXCEPT ![3][4] = @ - MinZ(mx, meshes[data[o]].vertices)]
        ELSE IF obj_type[o] = "EMPTY"
        THEN [mx EXCEPT ![3][4] = @ - obj_location(o)[3]]
        ELSE mx

\* min() of an empty sequence raises ValueError
FloorFails(o) == obj_type[o] = "MESH" /\ meshes[data[o]].vertices = <<>>

Sign(x) == IF x > 0 THEN 1 ELSE IF x < 0 THEN -1 ELSE 0

\* a vector along a world axis, or the zero vector
AxisAligned(v) == Cardinality({i \in 1..3 : v[i] # 0}) <= 1

\* vector.normalized(), for a vector along a world axis
Normalized(v) == <<Sign(v[1]), Sign(v[2]), Sign(v[3])>>

\* the rotation by a quarter turn about the unit axis n
QuarterTurnAbout(n) ==
    <<<<n[1] * n[1], n[1] * n[2] - n[3], n[1] * n[3] + n[2]>>,
      <<n[2] * n[1] + n[3], n[2] * n[2], n[2] * n[3] - n[1]>>,
      <<n[3] * n[1] - n[2], n[3] * n[2] + n[1], n[3] * n[3]>>>>

\* the axis Blender picks for the half turn between opposed vectors
Ortho(v) ==
    IF v[1] # 0 THEN <<-v[2] - v[3], v[1], v[1]>>
    ELSE IF v[2] # 0 THEN <<v[2], -v[1] - v[3], v[2]>>
    ELSE <<v[3], v[3], -v[1] - v[2]>>

\* the rotation by a half turn about the axis a, with a . a = 2
HalfTurnAbout(a) ==
    <<<<a[1] * a[1] - 1, a[1] * a[2], a[1] * a[3]>>,
      <<a[2] * a[1], a[2] * a[2] - 1, a[2] * a[3]>>,
      <<a[3] * a[1], a[3] * a[2], a[3] * a[3] - 1>>>>

\* v1.rotation_difference(v2), for a unit axis v1 and an axis-aligned v2
rotation_difference(v1, v2) ==
    LET b    == Normalized(v2)
        axis == Cross(v1, b)
    IN  IF axis # ZeroVec THEN QuarterTurnAbout(axis)
        ELSE IF Dot(v1, b) > 0 THEN Identity3
        ELSE HalfTurnAbout(Ortho(v1))

\* variant: the active object is moved onto the second of the two objects
align_in_between_onto_second(amx, locations) ==
    LET aligned(rot, sca) ==
            LET active_up == MatVec3(rot, <<0, 0, 1>>)
                sel_up    == VecSub(locations[2], locations[1])
            IN  MatMul(MatMul(get_loc_matrix(locations[2]),
                              get_rot_matrix(MatMul3(rotation_difference(active_up, sel_up),
                                                     rot))),
                       get_sca_matrix(sca))
        decomposed(d) == aligned(d.rot, d.sca)
    IN  decomposed(decompose(amx))

\* Align.align_in_between: the new world matrix of the active object
align_in_between(amx, locations) ==
    LET aligned(rot, sca) ==
            LET active_up == MatVec3(rot, <<0, 0, 1>>)
                sel_up    == VecSub(locations[2], locations[1])
            IN  MatMul(MatMul(get_loc_matrix(average_locations(locations)),
                              get_rot_matrix(MatMul3(rotation_difference(active_up, sel_up),
                                                     rot))),
                       get_sca_matrix(sca))
        \* _, rot, sca = active.matrix_world.decompose()
        decomposed(d) == aligned(d.rot, d.sca)
    IN  decomposed(decompose(amx))

\* [obj.matrix_world.to_translation() for obj in sel], sel without the active
Locations(others) == [i \in 1..Len(others) |-> to_translation(matrix_world[others[i]])]

\* what Align.execute leaves behind
AlignOutcome(self) ==
    LET active == active_object
        sel    == selected_objects
        three  == Cardinality(sel) = 3
        inb    == three /\ active # None /\ active \in sel
        same   == [matrix_world |-> matrix_world, parent |-> parent,
                   parent_type |-> parent_type, parent_bone |-> parent_bone,
                   rotation_mode |-> cursor_rotation_mode,
                   is_inbetween |-> inb, result |-> "FINISHED"]
        each(f(_), S) == [o \in DOMAIN matrix_world |->
                              IF o \in S THEN f(o) ELSE matrix_world[o]]
        to_origin(o) == align_to_origin(self, matrix_world[o])
        to_cursor(o) == align_to_cursor(self, matrix_world[o])
        to_active(o) == align_to_active_object(self, matrix_world[active], matrix_world[o])
        to_bone(o)   == align_to_active_bone(self, matrix_world[active])
        rest   == sel \ {active}
        failing == {o \in sel : FloorFails(o)}
        dropped == {o \in sel : \A b \in failing : o < b}
    IN  \* a BoolProperty does not take None: three selected, no active object
        IF three /\ active = None
        THEN [same EXCEPT !.is_inbetween = is_inbetween, !.result = "ERROR"]
        ELSE IF inb /\ self.inbetween
        THEN [same EXCEPT !.matrix_world =
                 [matrix_world EXCEPT ![active] =
                      align_in_between(matrix_world[active], Locations(Ascending(rest)))]]
        ELSE IF self.mode = "ORIGIN"
        THEN [same EXCEPT !.matrix_world = each(to_origin, sel)]
        ELSE IF self.mode = "CURSOR"
        THEN [same EXCEPT !.matrix_world = each(to_cursor, sel), !.rotation_mode = "XYZ"]
        ELSE IF self.mode = "ACTIVE"
        THEN IF active \in sel
             THEN IF active_bone # NoBone
                  THEN [same EXCEPT
                          !.matrix_world = each(to_bone, rest),
                          !.parent = [o \in DOMAIN parent |->
                                         IF o \in rest /\ self.parent_to_bone
                                         THEN active ELSE parent[o]],
                          !.parent_type = [o \in DOMAIN parent |->
                                         IF o \in rest /\ self.parent_to_bone
                                         THEN "BONE" ELSE parent_type[o]],
                          !.parent_bone = [o \in DOMAIN parent |->
                                         IF o \in rest /\ self.parent_to_bone
                                         THEN active_bone ELSE parent_bone[o]]]
                  ELSE [same EXCEPT !.matrix_world = each(to_active, rest)]
             ELSE same
        ELSE \* FLOOR
             [same EXCEPT !.matrix_world = each(drop_to_floor, dropped),
                          !.result = IF failing = {} THEN "FINISHED" ELSE "ERROR"]

\* a scene on which the in-between rotation is a quarter or a half turn: with
\* three objects selected and the active one among them, the other two stand
\* along a world axis
InBetweenComputable ==
    LET sel    == selected_objects
        others == Ascending(sel \ {active_object})
    IN  (Cardinality(sel) = 3 /\ active_object \in sel) =>
            AxisAligned(VecSub(to_translation(matrix_world[others[2]]),
                               to_translation(matrix_world[others[1]])))

\* Align.execute, called once on the scene
Align(self) ==
    /\ last_op = "init"
    /\ AlignPoll
    /\ \E out \in {AlignOutcome(self)} :
           /\ matrix_world' = out.matrix_world
           /\ parent' = out.parent
           /\ parent_type' = out.parent_type
           /\ parent_bone' = out.parent_bone
           /\ cursor_rotation_mode' = out.rotation_mode
           /\ is_inbetween' = out.is_inbetween
           /\ result' = out.result
    /\ last_op' = "align"
    \* the properties the call was made with
    /\ props' = Properties(self.inbetween, self.mode, self.location, self.rotation,
                           self.scale, <<self.loc_x, self.loc_y, self.loc_z>>,
                           <<self.rot_x, self.rot_y, self.rot_z>>,
                           <<self.sca_x, self.sca_y, self.sca_z>>, self.parent_to_bone,
                           self.align_z_to_y, self.roll, self.roll_amount)
    /\ pre' = [matrix_world |-> matrix_world, selected |-> selected_objects,
               active |-> active_object, bone |-> active_bone, parent |-> parent,
               parent_type |-> parent_type, parent_bone |-> parent_bone]
    /\ UNCHANGED <<obj_type, select, hide, modifiers, empty_display_size, data, meshes,
                   unity_exported, pre_unity_export_mx, pre_unity_export_mesh,
                   unity_triangulate, prepared_mx, prepares, fresh, scope, pre_state>>
    /\ UNCHANGED <<context_mode, active_object, active_bone, edit_mesh, cursor_location,
                   cursor_rotation, show_cursor, pivot, orientation, active_tool,
                   draw_object_axes, prefs, cursor, popup>>

(***************************************************************************)
(* The alignment specification                                             *)
(***************************************************************************)
\* a mesh with vertices at local Z -2, 0 and 3, and a mesh without vertices
MeshFloor == <<<<0, 0, -2>>, <<1, 0, 0>>, <<0, 1, 3>>>>
MeshNone == <<>>

\* the kinds of object an alignment scene is populated with
AlignTemplates == <<
    [type |-> "MESH", data |-> 1, rot |-> Rotation3(1, "Z"), sca |-> <<1, 2, 3>>],
    [type |-> "EMPTY", data |-> None, rot |-> Rotation3(1, "X"), sca |-> <<2, 2, 2>>],
    [type |-> "ARMATURE", data |-> None, rot |-> Rotation3(-1, "Y"), sca |-> <<1, 1, 1>>],
    \* a mirrored mesh
    [type |-> "MESH", data |-> 2, rot |-> Rotation3(2, "X"), sca |-> <<-1, 2, 1>>],
    [type |-> "MESH", data |-> 3, rot |-> Identity3, sca |-> <<3, 1, 1>>] >>

AlignTemplateOf(o, k) == AlignTemplates[((o + k) % Len(AlignTemplates)) + 1]

\* the places of a scene: the first two along X, the later ones above one
\* another
ObjLocation(o) ==
    IF o = 1 THEN <<0, 0, 0>>
    ELSE IF o = 2 THEN <<10, 0, 0>>
    ELSE <<8, 6, 12 - 24 * (o - 3)>>

\* the place of object o among n objects in layout l: the layouts hand the
\* places round
PlaceOf(o, l, n) == ((o - 1 + l) % n) + 1

\* the cursor placements of a scene
CursorPlacements == <<
    [location |-> <<0, 0, 0>>, rotation |-> Identity3, mode |-> "QUATERNION"],
    [location |-> <<7, -3, 5>>, rotation |-> MatMul3(Rotation3(1, "Z"), Rotation3(1, "X")),
     mode |-> "XYZ"] >>

\* a scene of objects S with object templates k, layout l, selection sel,
\* active object act
ToolScene(S, k, l, sel, act) ==
    /\ obj_type = [o \in S |-> AlignTemplateOf(o, k).type]
    /\ parent = [o \in S |-> None]
    /\ parent_type = [o \in S |-> "OBJECT"]
    /\ parent_bone = [o \in S |-> ""]
    /\ select = [o \in S |-> o \in sel]
    /\ hide = [o \in S |-> FALSE]
    /\ matrix_world = [o \in S |-> Compose(ObjLocation(PlaceOf(o, l, Cardinality(S))),
                                           AlignTemplateOf(o, k).rot,
                                           AlignTemplateOf(o, k).sca)]
    /\ data = [o \in S |-> AlignTemplateOf(o, k).data]
    /\ meshes = [m \in 1..3 |-> Mesh(<<MeshA, MeshFloor, MeshNone>>[m])]
    /\ active_object = act
    \* the export annotation is not in use
    /\ modifiers = [o \in S |-> <<>>]
    /\ empty_display_size = [o \in S |-> 1]
    /\ unity_exported = [o \in S |-> FALSE]
    /\ pre_unity_export_mx = [o \in S |-> flatten_matrix(Identity4)]
    /\ pre_unity_export_mesh = [o \in S |-> None]
    /\ unity_triangulate = FALSE
    /\ prepared_mx = [o \in S |-> Identity4]
    /\ prepares = 0
    /\ last_op = "init"
    /\ fresh = FALSE
    /\ scope = {}
    /\ pre_state = [o \in S |-> NoSnapshot]

AlignInit ==
    /\ \E k \in 1..Len(AlignTemplates), l \in 0..(NumAlignObjs - 1),
          sel \in SUBSET AlignObjs, act \in AlignObjs \cup {None} :
           /\ ToolScene(AlignObjs, k, l, sel, act)
           /\ InBetweenComputable
           \* an armature that is active may have an active bone, and be posed
           /\ IF act # None /\ AlignTemplateOf(act, k).type = "ARMATURE"
              THEN /\ active_bone \in {NoBone, "Bone"}
                   /\ context_mode \in {"OBJECT", "POSE"}
              ELSE /\ active_bone = NoBone
                   /\ context_mode = "OBJECT"
    /\ \E c \in 1..Len(CursorPlacements) :
           /\ cursor_location = CursorPlacements[c].location
           /\ cursor_rotation = CursorPlacements[c].rotation
           /\ cursor_rotation_mode = CursorPlacements[c].mode
    /\ edit_mesh = NoEditMesh
    /\ show_cursor = TRUE
    /\ pivot = "MEDIAN_POINT"
    /\ orientation = "GLOBAL"
    /\ active_tool = {"builtin.select_box"}
    /\ draw_object_axes = FALSE
    /\ prefs = AllPrefs
    /\ cursor = NoPreset
    /\ NothingCalled

\* the axis choices a call is made with: every axis, X alone, all but X, none
AxisChoices ==
    {f \in Flags3 : f[2] = f[3]}

\* the settings of one component: off, or on with a choice of axes
ComponentChoices ==
    {<<FALSE, AllAxes>>} \cup {<<TRUE, f>> : f \in AxisChoices}

\* roll amounts, in quarter turns
RollAmounts == {1, 2}

AlignOrigin ==
    \E l \in ComponentChoices :
        Align(Properties(FALSE, "ORIGIN", l[1], TRUE, FALSE, l[2], AllAxes, AllAxes,
                         TRUE, TRUE, FALSE, 1))

AlignCursor ==
    \E l \in ComponentChoices, r \in ComponentChoices :
        Align(Properties(FALSE, "CURSOR", l[1], r[1], FALSE, l[2], r[2], AllAxes,
                         TRUE, TRUE, FALSE, 1))

AlignActive ==
    \E l \in ComponentChoices, r \in ComponentChoices, s \in ComponentChoices :
        Align(Properties(FALSE, "ACTIVE", l[1], r[1], s[1], l[2], r[2], s[2],
                         TRUE, TRUE, FALSE, 1))

AlignBone ==
    \E parent_to_bone \in BOOLEAN, align_z_to_y \in BOOLEAN, roll \in BOOLEAN,
       roll_amount \in RollAmounts :
        Align(Properties(FALSE, "ACTIVE", TRUE, TRUE, FALSE, AllAxes, AllAxes, AllAxes,
                         parent_to_bone, align_z_to_y, roll, roll_amount))

AlignFloor ==
    Align(Properties(FALSE, "FLOOR", TRUE, TRUE, FALSE, AllAxes, AllAxes, AllAxes,
                     TRUE, TRUE, FALSE, 1))

AlignInBetween ==
    \E mode \in Modes :
        Align(Properties(TRUE, mode, TRUE, TRUE, FALSE, AllAxes, AllAxes, AllAxes,
                         TRUE, TRUE, FALSE, 1))

AlignNext ==
    \/ AlignOrigin
    \/ AlignCursor
    \/ AlignActive
    \/ AlignBone
    \/ AlignFloor
    \/ AlignInBetween

SpecAlign == AlignInit /\ [][AlignNext]_vars

(***************************************************************************)
(* CursorToOrigin and CursorToSelected                                     *)
(***************************************************************************)
\* the cursor-related state an operator call can change
CursorState ==
    [show_cursor |-> show_cursor, location |-> cursor_location,
     rotation |-> cursor_rotation, active_object |-> active_object,
     pivot |-> pivot, orientation |-> orientation, cursor |-> cursor,
     draw_object_axes |-> draw_object_axes, popup |-> FALSE, result |-> "FINISHED"]

\* popup_message(...) followed by return {'CANCELLED'}
Cancelled(st) == [st EXCEPT !.popup = TRUE, !.result = "CANCELLED"]

\* an exception leaves the call
Raised(st) == [st EXCEPT !.result = "ERROR"]

\* set_cursor(location=..., rotation=...)
set_cursor(st, location, rotation) ==
    [st EXCEPT !.location = location, !.rotation = rotation]

\* bpy.ops.machin3.set_transform_preset(pivot=..., orientation=...)
set_transform_preset(st, p, o) == [st EXCEPT !.pivot = p, !.orientation = o]

\* CursorToOrigin.invoke
CursorToOriginOutcome(event) ==
    LET st0 == CursorState
        st1 == [st0 EXCEPT !.show_cursor = TRUE]
        st2 == set_cursor(st1,
                          IF event.ctrl THEN cursor_location ELSE ZeroVec,
                          IF event.alt THEN cursor_rotation ELSE Identity3)
        st3 == IF prefs.cursor_set_transform_preset /\ cursor # NoPreset
               THEN [set_transform_preset(st2, cursor[1], cursor[2]) EXCEPT !.cursor = NoPreset]
               ELSE st2
        st4 == IF prefs.cursor_toggle_axes_drawing /\ draw_object_axes
               THEN [st3 EXCEPT !.draw_object_axes = FALSE]
               ELSE st3
    IN  IF event.alt /\ event.ctrl THEN Cancelled(st0) ELSE st4

\* CursorToSelected.poll
CursorToSelectedPoll ==
    IF context_mode = "EDIT_MESH" /\ edit_mesh.select_mode \in {"VERT", "EDGE", "FACE"}
    THEN edit_mesh.verts # <<>>
    ELSE active_object # None \/ selected_objects # {}

\* CursorToSelected.set_cursor_transform_preset
set_cursor_transform_preset(st) ==
    LET saved == IF st.pivot # "CURSOR" /\ st.orientation # "CURSOR"
                 THEN [st EXCEPT !.cursor = <<st.pivot, st.orientation>>]
                 ELSE st
    IN  set_transform_preset(saved, "CURSOR", "CURSOR")

\* CursorToSelected.enable_cursor_axes_drawing
enable_cursor_axes_drawing(st) == [st EXCEPT !.draw_object_axes = TRUE]

\* the preset and axes-drawing steps that follow a cursor placement
PresetAndAxes(st) ==
    LET set_transform_preset_and_draw_cursor_axes ==
            "machin3.tool_hyper_cursor" \notin active_tool
        st1 == IF prefs.activate_transform_pie /\ prefs.cursor_set_transform_preset
               THEN set_cursor_transform_preset(st) ELSE st
        st2 == IF prefs.activate_shading_pie /\ prefs.cursor_toggle_axes_drawing
               THEN enable_cursor_axes_drawing(st1) ELSE st1
    IN  IF set_transform_preset_and_draw_cursor_axes THEN st2 ELSE st

\* CursorToSelected.cursor_to_active_object
cursor_to_active_object(st, active, only_location, only_rotation) ==
    LET d == decompose(matrix_world[active])
    IN  set_cursor(st,
                   IF only_rotation THEN cursor_location ELSE d.loc,
                   IF only_location THEN cursor_rotation ELSE d.rot)

\* get_center_between_verts(v1, v2)
get_center_between_verts(e) == VecDivScalar(VecAdd(e[1], e[2]), 2)

\* CursorToSelected.cursor_to_editmesh; with several select modes enabled no
\* branch binds loc and rot
cursor_to_editmesh(st, active, only_location, only_rotation) ==
    LET mx     == matrix_world[active]
        mode   == edit_mesh.select_mode
        center ==
            IF mode = "VERT" THEN average_locations(edit_mesh.verts)
            ELSE IF mode = "EDGE"
            THEN average_locations([i \in 1..Len(edit_mesh.edges) |->
                                        get_center_between_verts(edit_mesh.edges[i])])
            ELSE average_locations(edit_mesh.faces)
        loc    == MatPoint(mx, center)
        rot    == edit_mesh.rotation
    IN  IF mode \in {"VERT", "EDGE", "FACE"}
        THEN set_cursor(st,
                        IF only_rotation THEN cursor_location ELSE loc,
                        IF only_location THEN cursor_rotation ELSE rot)
        ELSE Raised(st)

\* bpy.ops.view3d.snap_cursor_to_selected(): the host moves the cursor to the
\* median of the selected objects, if there are any
snap_cursor_to_selected(st) ==
    LET sel  == Ascending(selected_objects)
        locs == [i \in 1..Len(sel) |-> to_translation(matrix_world[sel[i]])]
    IN  IF sel = <<>> THEN st ELSE [st EXCEPT !.location = average_locations(locs)]

\* CursorToSelected.invoke
CursorToSelectedOutcome(event) ==
    LET st0    == [CursorState EXCEPT !.show_cursor = TRUE]
        active == active_object
        sel    == Ascending(selected_objects \ {active})
        placed == IF context_mode = "OBJECT"
                  THEN cursor_to_active_object(st0, active, event.alt, event.ctrl)
                  ELSE cursor_to_editmesh(st0, active, event.alt, event.ctrl)
    IN  IF sel # <<>> /\ active = None
        \* sel.remove(active) with active still None raises ValueError
        THEN Raised([st0 EXCEPT !.active_object = sel[1]])
        ELSE IF event.alt /\ event.ctrl
        THEN Cancelled(st0)
        ELSE IF (context_mode = "OBJECT" /\ active # None /\ sel = <<>>)
                \/ context_mode = "EDIT_MESH"
        THEN IF placed.result = "ERROR" THEN placed ELSE PresetAndAxes(placed)
        ELSE snap_cursor_to_selected(st0)

\* the state one of the two operators leaves behind
CursorCall(name, event, out) ==
    /\ show_cursor' = out.show_cursor
    /\ cursor_location' = out.location
    /\ cursor_rotation' = out.rotation
    /\ active_object' = out.active_object
    /\ pivot' = out.pivot
    /\ orientation' = out.orientation
    /\ cursor' = out.cursor
    /\ draw_object_axes' = out.draw_object_axes
    /\ popup' = out.popup
    /\ result' = out.result
    /\ last_op' = name
    /\ props' = [alt |-> event.alt, ctrl |-> event.ctrl]
    /\ pre' = CursorState
    /\ UNCHANGED <<obj_type, parent, select, hide, matrix_world, modifiers,
                   empty_display_size, data, meshes, unity_exported, pre_unity_export_mx,
                   pre_unity_export_mesh, unity_triangulate, prepared_mx, prepares,
                   fresh, scope, pre_state>>
    /\ UNCHANGED <<context_mode, active_bone, parent_type, parent_bone, edit_mesh,
                   cursor_rotation_mode, active_tool, prefs, is_inbetween>>

Events == [alt : BOOLEAN, ctrl : BOOLEAN]

CursorToOrigin ==
    \E event \in Events :
        \E out \in {CursorToOriginOutcome(event)} :
            CursorCall("cursor_to_origin", event, out)

CursorToSelected ==
    /\ CursorToSelectedPoll
    /\ \E event \in Events :
           \E out \in {CursorToSelectedOutcome(event)} :
               CursorCall("cursor_to_selected", event, out)

(***************************************************************************)
(* The cursor specification                                                *)
(***************************************************************************)
\* edit-mode selections of the active mesh: selected vertices, selected edges
\* (as vertex pairs), the centres of the selected faces, and the rotation the
\* create_rotation_matrix_from_* helper derives from the active element
EditSelections == <<
    [select_mode |-> "VERT", verts |-> <<<<2, 0, 0>>, <<0, 4, 2>>>>, edges |-> <<>>,
     faces |-> <<>>, rotation |-> Rotation3(1, "Z")],
    [select_mode |-> "EDGE", verts |-> <<<<2, 0, 0>>, <<0, 4, 2>>>>,
     edges |-> <<<<<<2, 0, 0>>, <<0, 4, 2>>>>>>, faces |-> <<>>,
     rotation |-> Rotation3(1, "X")],
    [select_mode |-> "FACE", verts |-> <<<<2, 0, 0>>, <<0, 4, 2>>, <<0, 0, 4>>>>,
     edges |-> <<>>, faces |-> <<<<2, 2, 0>>, <<0, 0, 4>>>>, rotation |-> Rotation3(1, "Y")],
    \* vertex and edge select mode enabled together
    [select_mode |-> "MULTI", verts |-> <<<<2, 0, 0>>>>, edges |-> <<>>, faces |-> <<>>,
     rotation |-> Identity3] >>

TransformSettings == {<<"MEDIAN_POINT", "GLOBAL">>, <<"CURSOR", "GLOBAL">>}

CursorInit ==
    /\ \E sel \in SUBSET Objs, act \in Objs \cup {None} :
           /\ ToolScene(Objs, Len(AlignTemplates) - 1, 0, sel, act)
           /\ \/ /\ context_mode = "OBJECT"
                 /\ edit_mesh = NoEditMesh
              \/ /\ act # None
                 /\ AlignTemplateOf(act, Len(AlignTemplates) - 1).type = "MESH"
                 /\ context_mode = "EDIT_MESH"
                 /\ \E e \in 1..Len(EditSelections) : edit_mesh = EditSelections[e]
    /\ active_bone = NoBone
    /\ cursor_location = CursorPlacements[2].location
    /\ cursor_rotation = CursorPlacements[2].rotation
    /\ cursor_rotation_mode = CursorPlacements[2].mode
    /\ show_cursor \in BOOLEAN
    /\ \E t \in TransformSettings : pivot = t[1] /\ orientation = t[2]
    /\ active_tool \in {{"builtin.select_box"}, {"machin3.tool_hyper_cursor"}}
    /\ draw_object_axes = FALSE
    /\ prefs \in [cursor_set_transform_preset : BOOLEAN, cursor_toggle_axes_drawing : BOOLEAN,
                  activate_transform_pie : BOOLEAN, activate_shading_pie : BOOLEAN]
    /\ cursor = NoPreset
    /\ NothingCalled

CursorNext ==
    \/ CursorToOrigin
    \/ CursorToSelected

SpecCursor == CursorInit /\ [][CursorNext]_vars

(***************************************************************************)
(* Properties of the export normalizer                                     *)
(***************************************************************************)
\* the objects the last prepare visited
Prepared == {o \in Objs : pre_state[o] # NoSnapshot}

\* C1 as claimed: a restore run right after a prepare leaves every object the prepare
\* visited with the world matrix, the modifier stack (MIRROR axis flags, BEVEL
\* widths, order), the empty display size and the mesh reference it had
\* immediately before the prepare.
C1_RestoreUndoesPrepare ==
    fresh =>
        \A o \in Prepared :
            /\ matrix_world[o] = pre_state[o].mx
            /\ modifiers[o] = pre_state[o].modifiers
            /\ empty_display_size[o] = pre_state[o].size
            /\ data[o] = pre_state[o].data

\* a restore right after a prepare that triangulated a parent carrying
\* modifiers together with its child
C1_Witness ==
    /\ fresh
    /\ unity_triangulate
    /\ \E o, c \in Prepared :
           /\ parent[c] = o
           /\ IsMesh(o)
           /\ \E i \in 1..Len(modifiers[o]) : modifiers[o][i].type = "BEVEL"
           /\ obj_type[c] = "EMPTY"

\* C2: a flagged object holds the world matrix it had when it was flagged as
\* its saved matrix, and an object that is not flagged holds the cleared
\* (identity) saved matrix: flag and saved matrix are set and cleared together.
C2_FlagAndSavedMatrixAgree ==
    \A o \in Objs :
        IF unity_exported[o]
        THEN unflatten_matrix(pre_unity_export_mx[o]) = prepared_mx[o]
        ELSE pre_unity_export_mx[o] = flatten_matrix(Identity4)

\* after a restore, one object restored and another still flagged
C2_Witness ==
    /\ last_op = "restore"
    /\ \E o \in Objs : unity_exported[o] /\ prepared_mx[o] # Identity4
    /\ \E o \in scope : ~unity_exported[o]

\* C3 as claimed: once a restore has completed, no object is flagged and no
\* object holds a saved mesh reference.
C3_NothingOutlivesRestore ==
    last_op = "restore" =>
        \A o \in Objs : ~unity_exported[o] /\ pre_unity_export_mesh[o] = None

\* C4 as claimed: a prepare flags every object of its scope (the selection).
C4_PrepareCoversScope ==
    last_op = "prepare" => \A o \in scope : unity_exported[o]

\* C5 as claimed: a restore removes a modifier from an object only if a
\* prepare added that modifier.
C5_RestoreRemovesOnlyItsOwn ==
    [][last_op' = "restore" =>
          \A o \in Objs :
              Len(modifiers'[o]) < Len(modifiers[o]) =>
                  modifiers[o][Len(modifiers[o])].by_prepare]_vars

\* the world-space positions of the vertices of mesh m under matrix mx
WorldVertices(mx, m) ==
    [i \in 1..Len(meshes[m].vertices) |-> MatPoint(mx, meshes[m].vertices[i])]

\* C6 as claimed: after a prepare, every vertex of every visited mesh object
\* is where it was in world space before the prepare.
C6_PrepareKeepsWorldPositions ==
    last_op = "prepare" =>
        \A o \in Prepared :
            IsMesh(o) =>
                WorldVertices(matrix_world[o], data[o])
                    = WorldVertices(pre_state[o].mx, pre_state[o].data)

(***************************************************************************)
(* Properties of the cursor operators                                      *)
(***************************************************************************)
\* the last call changed nothing of the cursor, the viewport, the active
\* object, the transform settings and the saved preset
CursorUntouched ==
    /\ show_cursor = pre.show_cursor
    /\ cursor_location = pre.location
    /\ cursor_rotation = pre.rotation
    /\ active_object = pre.active_object
    /\ pivot = pre.pivot
    /\ orientation = pre.orientation
    /\ cursor = pre.cursor
    /\ draw_object_axes = pre.draw_object_axes

\* C7 as claimed: a call of CursorToOrigin or CursorToSelected with ALT and
\* CTRL both held returns CANCELLED and has changed nothing.
C7_BothKeysCancelUntouched ==
    (last_op \in {"cursor_to_origin", "cursor_to_selected"} /\ props.alt /\ props.ctrl) =>
        result = "CANCELLED" /\ CursorUntouched

\* CursorToSelected, called with both keys while the cursor was not shown,
\* returned CANCELLED
C7_Witness ==
    /\ last_op = "cursor_to_selected"
    /\ props.alt /\ props.ctrl
    /\ result = "CANCELLED"
    /\ popup
    /\ ~pre.show_cursor

(***************************************************************************)
(* Properties of Align                                                     *)
(***************************************************************************)
\* the last call was a completed Align that took the branch of its mode
AlignedBy(mode) ==
    /\ last_op = "align"
    /\ result = "FINISHED"
    /\ props.mode = mode
    /\ ~(props.inbetween /\ is_inbetween)

\* location and rotation enabled, with every axis flag of both
LocationAndRotationOnAllAxes ==
    /\ props.location /\ props.loc_x /\ props.loc_y /\ props.loc_z
    /\ props.rotation /\ props.rot_x /\ props.rot_y /\ props.rot_z

\* an ORIGIN alignment of a rotated object that stood away from the origin
C8_Witness ==
    /\ AlignedBy("ORIGIN") /\ LocationAndRotationOnAllAxes
    /\ \E o \in pre.selected :
           /\ to_translation(pre.matrix_world[o]) # ZeroVec
           /\ decompose(pre.matrix_world[o]).rot # Identity3
           /\ to_translation(matrix_world[o]) = ZeroVec

\* the last call ran Align in ORIGIN mode on a scene where the in-between
\* branch was not to be taken
OriginCalled ==
    /\ last_op = "align"
    /\ props.mode = "ORIGIN"
    /\ ~(/\ props.inbetween
          /\ Cardinality(pre.selected) = 3
          /\ pre.active \in pre.selected)

\* C8 as claimed: an Align in ORIGIN mode with location and rotation enabled
\* on all axes leaves every selected object with a zero translation, the
\* identity rotation and the scale it had.
C8_OriginResetsRotation ==
    (OriginCalled /\ LocationAndRotationOnAllAxes) =>
        \A o \in pre.selected :
            /\ to_translation(matrix_world[o]) = ZeroVec
            /\ decompose(matrix_world[o]).rot = Identity3
            /\ decompose(matrix_world[o]).sca = decompose(pre.matrix_world[o]).sca

\* element i from the reference where the component is enabled on axis i,
\* from the object itself otherwise
Override(enabled, axes, reference, own) ==
    [i \in 1..3 |-> IF enabled /\ axes[i] THEN reference[i] ELSE own[i]]

\* the last call aligned the other selected objects to the active object
AlignedToActive ==
    /\ AlignedBy("ACTIVE")
    /\ pre.active \in pre.selected
    /\ pre.bone = NoBone

\* only the X translation is enabled
OnlyXLocation ==
    /\ props.location /\ props.loc_x /\ ~props.loc_y /\ ~props.loc_z
    /\ ~props.rotation /\ ~props.scale

\* C9: an Align in ACTIVE mode (active object selected, no active bone) gives
\* every other selected object the translation, Euler rotation and scale
\* whose element i is the active object's on the enabled axes of an enabled
\* component and its own elsewhere; with only the X translation enabled the
\* new matrix is the old one with the active object's X translation.
C9_ActiveOverridesPerAxis ==
    AlignedToActive =>
        \A o \in pre.selected \ {pre.active} :
            LET a   == decompose(pre.matrix_world[pre.active])
                d   == decompose(pre.matrix_world[o])
                loc == Override(props.location, <<props.loc_x, props.loc_y, props.loc_z>>,
                                a.loc, d.loc)
                eul == Override(props.rotation, <<props.rot_x, props.rot_y, props.rot_z>>,
                                to_euler(a.rot), to_euler(d.rot))
                sca == Override(props.scale, <<props.sca_x, props.sca_y, props.sca_z>>,
                                a.sca, d.sca)
            IN  /\ matrix_world[o] = Compose(loc, EulerToMatrix(eul), sca)
                /\ OnlyXLocation =>
                       matrix_world[o] = [pre.matrix_world[o] EXCEPT ![1][4] = a.loc[1]]

\* an ACTIVE alignment with only the X translation enabled, of an object that
\* differed from the active object in translation on every axis, in rotation
\* and in scale
C9_Witness ==
    /\ AlignedToActive
    /\ OnlyXLocation
    /\ \E o \in pre.selected \ {pre.active} :
           LET a == decompose(pre.matrix_world[pre.active])
               d == decompose(pre.matrix_world[o])
           IN  /\ \A i \in 1..3 : a.loc[i] # d.loc[i]
               /\ a.rot # d.rot
               /\ a.sca # d.sca
               /\ to_translation(matrix_world[o]) = <<a.loc[1], d.loc[2], d.loc[3]>>

\* the last call took the in-between branch
AlignedInBetween ==
    /\ last_op = "align"
    /\ props.inbetween
    /\ Cardinality(pre.selected) = 3
    /\ pre.active \in pre.selected

\* C10: with in-between requested, three objects selected and the active one
\* among them, whatever the mode, the active object ends at the midpoint of
\* the other two with its scale unchanged, and no other object is changed.
C10_InBetweenCentresActive ==
    AlignedInBetween =>
        /\ \A p, q \in pre.selected \ {pre.active} :
               p # q =>
                   VecAdd(to_translation(matrix_world[pre.active]),
                          to_translation(matrix_world[pre.active]))
                       = VecAdd(to_translation(pre.matrix_world[p]),
                                to_translation(pre.matrix_world[q]))
        /\ decompose(matrix_world[pre.active]).sca
               = decompose(pre.matrix_world[pre.active]).sca
        /\ \A o \in DOMAIN matrix_world :
               o # pre.active => matrix_world[o] = pre.matrix_world[o]

\* an in-between alignment in ORIGIN mode between objects at (0,0,0) and
\* (10,0,0) that moved and turned the active object
C10_Witness ==
    /\ AlignedInBetween
    /\ props.mode = "ORIGIN"
    /\ {to_translation(pre.matrix_world[o]) : o \in pre.selected \ {pre.active}}
           = {<<0, 0, 0>>, <<10, 0, 0>>}
    /\ to_translation(matrix_world[pre.active]) = <<5, 0, 0>>
    /\ to_translation(pre.matrix_world[pre.active]) # <<5, 0, 0>>
    /\ decompose(matrix_world[pre.active]).rot # decompose(pre.matrix_world[pre.active]).rot

\* the last call ran Align in FLOOR mode and did not take the in-between branch
FloorCalled ==
    /\ last_op = "align"
    /\ props.mode = "FLOOR"
    /\ ~(props.inbetween /\ is_inbetween)

\* a mesh object with at least one vertex
HasVertices(o) == obj_type[o] = "MESH" /\ meshes[data[o]].vertices # <<>>

\* C11: after an Align in FLOOR mode every selected mesh object with at least
\* one vertex has its lowest vertex at world Z = 0, and keeps its X and Y
\* translation, its rotation and its scale.
C11_FloorTouchesZero ==
    FloorCalled =>
        \A o \in pre.selected :
            HasVertices(o) =>
                /\ MinZ(matrix_world[o], meshes[data[o]].vertices) = 0
                /\ matrix_world[o][1] = pre.matrix_world[o][1]
                /\ matrix_world[o][2] = pre.matrix_world[o][2]
                /\ Linear3(matrix_world[o]) = Linear3(pre.matrix_world[o])

\* a FLOOR alignment that returned and moved a mesh whose lowest vertex was
\* off the floor
C11_Witness ==
    /\ FloorCalled
    /\ result = "FINISHED"
    /\ \E o \in pre.selected :
           /\ HasVertices(o)
           /\ MinZ(pre.matrix_world[o], meshes[data[o]].vertices) # 0
           /\ MinZ(matrix_world[o], meshes[data[o]].vertices) = 0

\* the last call was a CursorToSelected that switched the transform settings
\* from another pair to (CURSOR, CURSOR): it ran the preset step
SwitchedToCursorPreset ==
    /\ last_op = "cursor_to_selected"
    /\ prefs.cursor_set_transform_preset
    /\ <<pre.pivot, pre.orientation>> # <<"CURSOR", "CURSOR">>
    /\ <<pivot, orientation>> = <<"CURSOR", "CURSOR">>

\* the last call was a CursorToOrigin that returned while a preset was saved
ResetWithSavedPreset ==
    /\ last_op = "cursor_to_origin"
    /\ result = "FINISHED"
    /\ prefs.cursor_set_transform_preset
    /\ pre.cursor # NoPreset

\* C12: with the transform-preset preference enabled, a CursorToSelected that
\* runs its preset step while the (pivot, orientation) pair is not already
\* (CURSOR, CURSOR) saves that pair, and a CursorToOrigin that finds a saved
\* pair sets pivot and orientation back to it and clears it.
C12_PresetSavedAndRestored ==
    /\ SwitchedToCursorPreset => cursor = <<pre.pivot, pre.orientation>>
    /\ ResetWithSavedPreset =>
           /\ <<pivot, orientation>> = pre.cursor
           /\ cursor = NoPreset

\* a CursorToOrigin that set pivot and orientation back from (CURSOR, CURSOR)
\* to the pair an earlier CursorToSelected had saved
C12_Witness ==
    /\ ResetWithSavedPreset
    /\ <<pre.pivot, pre.orientation>> = <<"CURSOR", "CURSOR">>
    /\ pre.cursor = <<"MEDIAN_POINT", "GLOBAL">>
    /\ <<pivot, orientation>> = <<"MEDIAN_POINT", "GLOBAL">>
    /\ cursor = NoPreset

\* the last call was a CursorToSelected made with objects selected and no
\* active object
CalledWithoutActive ==
    /\ last_op = "cursor_to_selected"
    /\ pre.active_object = None
    /\ selected_objects # {}

\* C13: a CursorToSelected invoked with at least one selected object and no
\* active object makes the first selected object the active one and returns
\* FINISHED or CANCELLED.
C13_NoActiveCompletes ==
    CalledWithoutActive =>
        /\ active_object = Ascending(selected_objects)[1]
        /\ result \in {"FINISHED", "CANCELLED"}

\* such a call, after which the first selected object is the active one
C13_Witness ==
    /\ CalledWithoutActive
    /\ active_object = Ascending(selected_objects)[1]

\* the last call ran Align in ACTIVE mode on a scene where the in-between
\* branch was not to be taken
ActiveCalled ==
    /\ last_op = "align"
    /\ props.mode = "ACTIVE"
    /\ ~(/\ props.inbetween
          /\ Cardinality(pre.selected) = 3
          /\ pre.active \in pre.selected)

\* C14: Align in ACTIVE mode, the in-between branch not taken, leaves the
\* active object's world matrix as it was; with no active object among the
\* selected ones it changes no world matrix and no parent, and returns
\* FINISHED.
C14_ActiveLeavesActiveAlone ==
    ActiveCalled =>
        /\ pre.active # None =>
               matrix_world[pre.active] = pre.matrix_world[pre.active]
        /\ pre.active \notin pre.selected =>
               /\ matrix_world = pre.matrix_world
               /\ parent = pre.parent
               /\ parent_type = pre.parent_type
               /\ parent_bone = pre.parent_bone
               /\ result = "FINISHED"

\* an ACTIVE call on a selection that does not hold the active object, which
\* returned FINISHED and changed nothing
C14_Witness ==
    /\ ActiveCalled
    /\ pre.active # None
    /\ pre.active \notin pre.selected
    /\ Cardinality(pre.selected) = 2
    /\ matrix_world = pre.matrix_world
    /\ parent = pre.parent
    /\ result = "FINISHED"

(***************************************************************************)
(* Properties of the export normalizer: geometry blocks and polls          *)
(***************************************************************************)
\* the geometry blocks of the scene that are not a duplicate made by prepare
OriginalMeshes == MeshIds \ {CopyId(o) : o \in Objs}

\* C15: a prepare and a restore leave every original geometry block as it
\* is, also when objects share one; the blocks a restore removes are the
\* blocks held by the mesh objects it restores, each one the duplicate a
\* prepare made for that object, and no object refers to one of them after
\* the restore.
C15_OnlyDuplicatesRemoved ==
    [][last_op' \in {"prepare", "restore"} =>
          /\ \A m \in OriginalMeshes : meshes'[m] = meshes[m]
          /\ last_op' = "restore" =>
                 LET restored  == {o \in Objs : unity_exported[o] /\ ~unity_exported'[o]}
                     collected == {m \in MeshIds : meshes[m].live /\ ~meshes'[m].live}
                 IN  /\ collected = {data[o] : o \in {r \in restored : IsMesh(r)}}
                     /\ \A o \in restored : IsMesh(o) => data[o] = CopyId(o)
                     /\ collected \cap OriginalMeshes = {}
                     /\ \A o \in Objs : data'[o] \notin collected]_vars

\* two objects sharing one geometry block, prepared together and restored:
\* both refer to the shared block again, which is as it was, and the two
\* duplicates are gone
C15_Witness ==
    /\ fresh
    /\ \E o, q \in Prepared :
           /\ o # q
           /\ IsMesh(o) /\ IsMesh(q)
           /\ ~unity_exported[o] /\ ~unity_exported[q]
           /\ data[o] = data[q]
           /\ data[o] \in OriginalMeshes
           /\ meshes[data[o]] = Mesh(MeshA)
           /\ ~meshes[CopyId(o)].live /\ ~meshes[CopyId(q)].live

\* C16: a prepare does not visit an object that is flagged when it starts:
\* such an object stays flagged and keeps its saved world matrix and its
\* saved geometry reference.
C16_PrepareSkipsFlagged ==
    [][last_op' = "prepare" =>
          \A o \in Objs :
              unity_exported[o] =>
                  /\ pre_state'[o] = NoSnapshot
                  /\ unity_exported'[o]
                  /\ pre_unity_export_mx'[o] = pre_unity_export_mx[o]
                  /\ pre_unity_export_mesh'[o] = pre_unity_export_mesh[o]]_vars

\* a prepare that visited one object while another, hidden one was flagged
\* with a saved matrix and a saved geometry reference
C16_Witness ==
    /\ last_op = "prepare"
    /\ \E o, q \in Objs :
           /\ o \notin Prepared
           /\ unity_exported[o]
           /\ hide[o]
           /\ pre_unity_export_mesh[o] # None
           /\ pre_unity_export_mx[o] # flatten_matrix(Identity4)
           /\ q \in Prepared
           /\ unity_exported[q]

=============================================================================
